---- MODULE Spec2Model ----
(***************************************************************************)
(* Checkout workflow of the storefront client: the payment form            *)
(* (components/cart/Payment.jsx, src/unnamed/part_008), the review step    *)
(* (src/components/cart/ReviewOrder.jsx) and the confirmation page.        *)
(*                                                                         *)
(* One action is one task of the browser's event loop: a handler runs to   *)
(* its first await on an external promise (addOrder, validateDjibouti-     *)
(* Payment, a router navigation); an await on a value that is already      *)
(* settled resumes in a microtask, before any other task, and is part of   *)
(* the same action.  React commits the state set in a click handler before *)
(* the next event is dispatched, so a rendered control reads the current   *)
(* state.                                                                  *)
(***************************************************************************)
EXTENDS Integers, Sequences, FiniteSets, TLC

VARIABLES
  page,             \* the mounted route
  nav,              \* target of the router.push under way, or "none"
  cart,             \* CartContext.cart: product -> quantity (0: no line)
  cartTotal,        \* CartContext.cartTotal, in thousandths
  cartCount,        \* CartContext.cartCount
  orderInfo,        \* OrderContext.orderInfo, the order draft
  orderId,          \* OrderContext.orderId
  pyLoading,        \* Payment: isLoading
  dataInitialized,  \* Payment: dataInitialized
  pySubmitting,     \* Payment: isSubmitting
  selectedPayment,  \* Payment: selectedPayment
  accountName,      \* Payment: accountName
  accountNumber,    \* Payment: accountNumber
  nameValid,        \* Payment: nameValid   ("null" | "true" | "false")
  numberValid,      \* Payment: numberValid ("null" | "true" | "false")
  submitAttempts,   \* Payment: submitAttempts.current
  resetTimers,      \* Payment: pending setTimeout(..., 5000) callbacks
  flights,          \* handlePayment invocations past the guard, suspended
  rvLoading,        \* ReviewOrder: isLoading
  rvSubmitting,     \* ReviewOrder: isSubmitting
  rvPending,        \* addOrder calls of the mounted ReviewOrder not settled
  orphanOrders,     \* addOrder calls of unmounted ReviewOrder instances
  ev,               \* what the last task did (toasts, pushes, reports)
  user,             \* AuthContext.user ("user" | "null")
  signingOut,       \* a signOut call of next-auth is under way
  boundary,         \* the route error boundary shown, if any
  calls,            \* calls the last header or boundary task made, in order
  site              \* the storefront component exercised, and its state

vars == << page, nav, cart, cartTotal, cartCount, orderInfo, orderId,
           pyLoading, dataInitialized, pySubmitting, selectedPayment,
           accountName, accountNumber, nameValid, numberValid, submitAttempts,
           resetTimers, flights, rvLoading, rvSubmitting, rvPending,
           orphanOrders, ev, user, signingOut, boundary, calls, site >>

cartVars == << cart, cartTotal, cartCount >>

\* the header and the error boundaries, outside the checkout pages
shellVars == << user, signingOut, boundary, calls, site >>

paymentVars == << pyLoading, dataInitialized, pySubmitting, selectedPayment,
                  accountName, accountNumber, nameValid, numberValid,
                  submitAttempts, resetTimers, flights >>

reviewVars == << rvLoading, rvSubmitting, rvPending, orphanOrders >>

-----------------------------------------------------------------------------
(* Bounds of the model *)

MaxNameLen == 5      \* typed names: every string up to this length
MaxNumLen == 4       \* typed numbers: every string up to this length
LongOver == 1        \* long numbers: up to MaxAccountDigits + LongOver digits
MaxQty == 1          \* quantity of a cart line
MaxAttempts == 2     \* cap of submitAttempts.current
MaxTimers == 1       \* pending reset timers
MaxFlights == 2      \* suspended handlePayment invocations
MaxCartQty == 2      \* quantity of a cart line, in the cart on its own
MaxOrders == 2       \* addOrder calls not yet settled

(* Program constants *)

MinAccountDigits == 4
MaxAccountDigits == 30
MinWordLen == 2
MinWords == 2
MobileLen == 8

-----------------------------------------------------------------------------
(* Strings are sequences of one-character strings. *)

Ws == {" ", "\t"}
DigitChars == {"0", "1", "2", "3", "4", "5", "6", "7", "8", "9"}
NameChars == {"a", " ", "\t"}
NumChars == {"0", "1", "7", "-"}

IsDigit(c) == c \in DigitChars

\* String.prototype.replace(/[^\d]/g, "") and replace(/\D/g, "")
StripNonDigits(s) == SelectSeq(s, IsDigit)

RECURSIVE TrimStart(_)
TrimStart(s) ==
  IF s = << >> THEN << >>
  ELSE IF Head(s) \in Ws THEN TrimStart(Tail(s)) ELSE s

RECURSIVE TrimEnd(_)
TrimEnd(s) ==
  IF s = << >> THEN << >>
  ELSE IF s[Len(s)] \in Ws THEN TrimEnd(SubSeq(s, 1, Len(s) - 1)) ELSE s

\* String.prototype.trim()
Trim(s) == TrimEnd(TrimStart(s))

\* split(/\s+/): cur is the token being read, inSep says the previous
\* character belonged to a separator.  "" splits into [""].
RECURSIVE SplitFrom(_, _, _)
SplitFrom(s, cur, inSep) ==
  IF s = << >> THEN << cur >>
  ELSE IF Head(s) \in Ws
       THEN IF inSep THEN SplitFrom(Tail(s), cur, TRUE)
            ELSE << cur >> \o SplitFrom(Tail(s), << >>, TRUE)
       ELSE SplitFrom(Tail(s), Append(cur, Head(s)), FALSE)

SplitWs(s) == SplitFrom(s, << >>, FALSE)

\* nameWords.length >= 2 && nameWords.every((w) => w.length >= 2)
NameWordsOk(nameWords) ==
  /\ Len(nameWords) >= MinWords
  /\ \A i \in 1..Len(nameWords) : Len(nameWords[i]) >= MinWordLen

\* /^77[0-9]{6}$/
IsDjiboutiFormat(n) ==
  /\ Len(n) = MobileLen
  /\ n[1] = "7"
  /\ n[2] = "7"
  /\ \A i \in 1..Len(n) : IsDigit(n[i])

SimpleNumbers ==
  { << "7", "7", "0", "0", "0", "0", "0", "0" >>,
    << "7", "7", "1", "1", "1", "1", "1", "1" >>,
    << "7", "7", "1", "2", "3", "4", "5", "6" >>,
    << "7", "7", "6", "5", "4", "3", "2", "1" >> }

\* /(77000000|77111111|77123456|77654321)/.test(n): a substring match
IsSimpleNumber(n) ==
  \E i \in 1..Len(n) :
    /\ i + MobileLen - 1 <= Len(n)
    /\ SubSeq(n, i, i + MobileLen - 1) \in SimpleNumbers

\* /^0+$/
IsAllZeros(n) == Len(n) >= 1 /\ \A i \in 1..Len(n) : n[i] = "0"

\* /^(\d)\1+$/
IsRepeating(n) ==
  /\ Len(n) >= 2
  /\ IsDigit(n[1])
  /\ \A i \in 1..Len(n) : n[i] = n[1]

-----------------------------------------------------------------------------
(* Live validation, on each keystroke *)

\* handleAccountNameChange asking for two words of any length
LiveNameValid_AnyWordLength(value) ==
  IF Len(value) = 0 THEN "null"
  ELSE IF Len(SplitWs(Trim(value))) >= MinWords THEN "true" ELSE "false"

\* handleAccountNameChange: the value of nameValid after the change
LiveNameValid(value) ==
  IF Len(value) = 0 THEN "null"
  ELSE IF NameWordsOk(SplitWs(Trim(value))) THEN "true" ELSE "false"

\* handleAccountNumberChange accepting every number of the mobile format
LiveNumberValid_FormatOnly(value) ==
  LET rawValue == StripNonDigits(value) IN
  IF Len(rawValue) = 0 THEN "null"
  ELSE IF IsDjiboutiFormat(rawValue) THEN "true"
  ELSE IF Len(rawValue) >= MinAccountDigits /\ Len(rawValue) <= MaxAccountDigits
       THEN IF ~IsAllZeros(rawValue) /\ ~IsRepeating(rawValue)
            THEN "true" ELSE "false"
  ELSE "false"

\* handleAccountNumberChange: the value of numberValid after the change
LiveNumberValid(value) ==
  LET rawValue == StripNonDigits(value) IN
  IF Len(rawValue) = 0 THEN "null"
  ELSE IF IsDjiboutiFormat(rawValue)
       THEN IF IsSimpleNumber(rawValue) THEN "false" ELSE "true"
  ELSE IF Len(rawValue) >= MinAccountDigits /\ Len(rawValue) <= MaxAccountDigits
       THEN IF ~IsAllZeros(rawValue) /\ ~IsRepeating(rawValue)
            THEN "true" ELSE "false"
  ELSE "false"

-----------------------------------------------------------------------------
(* Cart, payment methods and the order draft *)

\* the products on sale, and those the checkout carts hold
Catalog == {"p1", "p2", "p3"}
Products == {"p1"}

\* Amounts are in thousandths of the currency unit.
Price ==
  [p \in Catalog |->
     CASE p = "p1" -> 49996 [] p = "p2" -> 100000 [] OTHER -> 12345]

Carts == [Products -> 0..MaxQty]
EmptyCart == [p \in Products |-> 0]

RECURSIVE SumOver(_, _)
SumOver(f, S) ==
  IF S = {} THEN 0
  ELSE LET p == CHOOSE x \in S : TRUE IN f[p] + SumOver(f, S \ {p})

CartTotal(c) == SumOver([p \in DOMAIN c |-> Price[p] * c[p]], DOMAIN c)
CartCount(c) == SumOver(c, DOMAIN c)

\* Number(x.toFixed(2)): the nearest hundredth, halves upwards
ToFixed2(x) == ((x + 5) \div 10) * 10

\* totalAmount of Payment: Number(safeValue(cartTotal?.toFixed(2), 0))
PaymentTotalAmount(c) == ToFixed2(CartTotal(c))

NoSelection == [platform |-> "none", isCashPayment |-> FALSE]
PaymentTypes ==
  { [platform |-> "WAAFI", isCashPayment |-> FALSE],
    [platform |-> "CASH", isCashPayment |-> FALSE] }

\* isCashPayment of Payment
IsCash(p) == p.platform = "CASH" \/ p.isCashPayment

CashNumber == << "CASH" >>
CashName == << "Paiement en especes" >>

NoPaymentInfo ==
  [ present |-> FALSE, typePayment |-> "none", paymentAccountNumber |-> << >>,
    paymentAccountName |-> << >>, isCashPayment |-> FALSE ]

NoTotal == 0 - 1

\* orderInfo before anything was put in it
NoDraft ==
  [ present |-> FALSE, orderItems |-> EmptyCart, paymentInfo |-> NoPaymentInfo,
    totalAmount |-> NoTotal ]

\* setOrderInfo({ orderItems }) with prepareOrderItems(): one item per cart
\* line with its product and quantity
ItemsDraft(c) ==
  [ present |-> TRUE, orderItems |-> c, paymentInfo |-> NoPaymentInfo,
    totalAmount |-> NoTotal ]

\* the paymentInfo object built by handlePayment
MakePaymentInfo(sel, name, number) ==
  [ present |-> TRUE,
    typePayment |-> sel.platform,
    paymentAccountNumber |-> IF IsCash(sel) THEN CashNumber ELSE number,
    paymentAccountName |-> IF IsCash(sel) THEN CashName ELSE Trim(name),
    isCashPayment |-> IsCash(sel) ]

\* { paymentInfo, totalAmount } without the spread of orderInfo
FinalOrderInfo_ItemsDropped(draft, info, total) ==
  [ NoDraft EXCEPT !.present = TRUE, !.paymentInfo = info,
                   !.totalAmount = total ]

\* { ...orderInfo, paymentInfo, totalAmount }
FinalOrderInfo(draft, info, total) ==
  [ draft EXCEPT !.present = TRUE, !.paymentInfo = info, !.totalAmount = total ]

\* !orderInfo || !orderInfo.paymentInfo
HasPaymentInfo(draft) == draft.present /\ draft.paymentInfo.present

-----------------------------------------------------------------------------
(* What a task did *)

NoInput == [sel |-> NoSelection, name |-> << >>, number |-> << >>]

\* none of the storefront components below is mounted
NoSite == [comp |-> "none", st |-> [idle |-> TRUE]]

NoEvent ==
  [ op |-> "none", result |-> "none", toasts |-> {}, pushes |-> << >>,
    captured |-> FALSE, sent |-> FALSE, inFlight |-> 0, input |-> NoInput ]

\* inFlight: the handlePayment invocations suspended when the task began
Event(op, result, toasts, pushes, captured, sent) ==
  [ op |-> op, result |-> result, toasts |-> toasts, pushes |-> pushes,
    captured |-> captured, sent |-> sent, inFlight |-> Len(flights),
    input |-> NoInput ]

\* a task of handlePayment, with the form values the invocation closed over
PaymentEvent(c, result, toasts, pushes, captured) ==
  [ Event("handlePayment", result, toasts, pushes, captured, FALSE)
      EXCEPT !.input = [sel |-> c.sel, name |-> c.name, number |-> c.number] ]

\* router.push: the last push of a task is the navigation under way
NavAfter(pushes) == IF pushes = << >> THEN nav ELSE pushes[Len(pushes)]

-----------------------------------------------------------------------------
(* ReviewOrder: the check made when the page is entered *)

\* cart.length
CartLength(c) == Cardinality({p \in Products : c[p] > 0})

\* checkOrderData with the payment check after the cart check
CheckOrderData_CartFirst(draft, c) ==
  IF CartLength(c) = 0
  THEN [toasts |-> {"cart_empty"}, pushes |-> << "/cart" >>]
  ELSE IF ~HasPaymentInfo(draft)
  THEN [toasts |-> {"payment_first"}, pushes |-> << "/payment" >>]
  ELSE [toasts |-> {}, pushes |-> << >>]

\* checkOrderData: the toasts shown and the routes pushed
CheckOrderData(draft, c) ==
  IF ~HasPaymentInfo(draft)
  THEN [toasts |-> {"payment_first"}, pushes |-> << "/payment" >>]
  ELSE IF CartLength(c) = 0
  THEN [toasts |-> {"cart_empty"}, pushes |-> << "/cart" >>]
  ELSE [toasts |-> {}, pushes |-> << >>]

\* useEffect(..., [orderInfo, cart, router]): a task that changes the draft
\* while ReviewOrder is mounted runs checkOrderData again
AfterDraftChange(e, draft) ==
  IF page = "review" /\ draft # orderInfo
  THEN [ e EXCEPT !.toasts = @ \cup CheckOrderData(draft, cart).toasts,
                  !.pushes = @ \o CheckOrderData(draft, cart).pushes ]
  ELSE e

-----------------------------------------------------------------------------
(* Payment: submit-time validation and handlePayment *)

\* validateDjiboutiPayment of helpers/validation: a number of the local
\* mobile format is refused when it is on the list of trivial numbers
ValidateDjiboutiPayment(name, number) == ~IsSimpleNumber(number)

\* validatePaymentData without the early return for a cash payment
ValidatePaymentData_CashChecked(sel, name, number) ==
  LET trimmedName == Trim(name)
      cleanNumber == StripNonDigits(number)
      nameWords == SplitWs(trimmedName)
  IN IF sel = NoSelection \/ trimmedName = << >> \/ cleanNumber = << >>
     THEN "required"
     ELSE IF \/ Len(nameWords) < MinWords
             \/ \E i \in 1..Len(nameWords) : Len(nameWords[i]) < MinWordLen
     THEN "name"
     ELSE IF IsDjiboutiFormat(cleanNumber) THEN "djibouti"
     ELSE IF \/ Len(cleanNumber) < MinAccountDigits
             \/ Len(cleanNumber) > MaxAccountDigits
     THEN "length"
     ELSE IF IsAllZeros(cleanNumber) \/ IsRepeating(cleanNumber)
     THEN "pattern"
     ELSE "valid"

\* validatePaymentData counting the words of the name only
ValidatePaymentData_WordCountOnly(sel, name, number) ==
  IF IsCash(sel) THEN "valid"
  ELSE
    LET trimmedName == Trim(name)
        cleanNumber == StripNonDigits(number)
        nameWords == SplitWs(trimmedName)
    IN IF sel = NoSelection \/ trimmedName = << >> \/ cleanNumber = << >>
       THEN "required"
       ELSE IF Len(nameWords) < MinWords
       THEN "name"
       ELSE IF IsDjiboutiFormat(cleanNumber) THEN "djibouti"
       ELSE IF \/ Len(cleanNumber) < MinAccountDigits
               \/ Len(cleanNumber) > MaxAccountDigits
       THEN "length"
       ELSE IF IsAllZeros(cleanNumber) \/ IsRepeating(cleanNumber)
       THEN "pattern"
       ELSE "valid"

\* validatePaymentData with no upper limit on the number of digits
ValidatePaymentData_NoUpperLimit(sel, name, number) ==
  IF IsCash(sel) THEN "valid"
  ELSE
    LET trimmedName == Trim(name)
        cleanNumber == StripNonDigits(number)
        nameWords == SplitWs(trimmedName)
    IN IF sel = NoSelection \/ trimmedName = << >> \/ cleanNumber = << >>
       THEN "required"
       ELSE IF \/ Len(nameWords) < MinWords
               \/ \E i \in 1..Len(nameWords) : Len(nameWords[i]) < MinWordLen
       THEN "name"
       ELSE IF IsDjiboutiFormat(cleanNumber) THEN "djibouti"
       ELSE IF Len(cleanNumber) < MinAccountDigits
       THEN "length"
       ELSE IF IsAllZeros(cleanNumber) \/ IsRepeating(cleanNumber)
       THEN "pattern"
       ELSE "valid"

\* validatePaymentData up to its await: "valid" and the two { isValid: false }
\* results are returned; "length" and "pattern" show a toast, reset the
\* submit state and return undefined; "djibouti" awaits the mobile validator
ValidatePaymentData(sel, name, number) ==
  IF IsCash(sel) THEN "valid"
  ELSE
    LET trimmedName == Trim(name)
        cleanNumber == StripNonDigits(number)
        nameWords == SplitWs(trimmedName)
    IN IF sel = NoSelection \/ trimmedName = << >> \/ cleanNumber = << >>
       THEN "required"
       ELSE IF \/ Len(nameWords) < MinWords
               \/ \E i \in 1..Len(nameWords) : Len(nameWords[i]) < MinWordLen
       THEN "name"
       ELSE IF IsDjiboutiFormat(cleanNumber) THEN "djibouti"
       ELSE IF \/ Len(cleanNumber) < MinAccountDigits
               \/ Len(cleanNumber) > MaxAccountDigits
       THEN "length"
       ELSE IF IsAllZeros(cleanNumber) \/ IsRepeating(cleanNumber)
       THEN "pattern"
       ELSE "valid"

\* the values a handlePayment invocation closes over
Closure ==
  [ sel |-> selectedPayment, name |-> accountName, number |-> accountNumber,
    draft |-> orderInfo, total |-> PaymentTotalAmount(cart), mounted |-> TRUE ]

RemoveAt(q, i) == SubSeq(q, 1, i - 1) \o SubSeq(q, i + 1, Len(q))

SetPayment(sub, sel, name, number, attempts, timers, fl, draft, e) ==
  /\ pySubmitting' = sub
  /\ selectedPayment' = sel
  /\ accountName' = name
  /\ accountNumber' = number
  /\ submitAttempts' = attempts
  /\ resetTimers' = timers
  /\ flights' = fl
  /\ orderInfo' = draft
  /\ ev' = AfterDraftChange(e, draft)
  /\ nav' = NavAfter(AfterDraftChange(e, draft).pushes)
  /\ UNCHANGED << page, cartVars, shellVars, orderId, pyLoading,
                  dataInitialized, nameValid, numberValid, reviewVars >>

\* the success path of handlePayment without the finally block
PaymentAccepted_NoFinally(c, fl) ==
  LET info == MakePaymentInfo(c.sel, c.name, c.number)
      e == PaymentEvent(c, "accepted", {}, << "/review-order" >>, FALSE)
  IN IF c.mounted
     THEN SetPayment(pySubmitting, NoSelection, << >>, << >>, submitAttempts,
                     resetTimers, fl, FinalOrderInfo(c.draft, info, c.total), e)
     ELSE SetPayment(pySubmitting, selectedPayment, accountName, accountNumber,
                     submitAttempts, resetTimers, fl,
                     FinalOrderInfo(c.draft, info, c.total), e)

\* handlePayment after a successful validation: the draft gets paymentInfo
\* and totalAmount, the router is sent to /review-order, the form is reset,
\* and the finally block releases the submit state.  The state of an
\* unmounted Payment is gone: only the draft and the router are touched.
PaymentAccepted(c, fl) ==
  LET info == MakePaymentInfo(c.sel, c.name, c.number)
      e == PaymentEvent(c, "accepted", {}, << "/review-order" >>, FALSE)
  IN IF c.mounted
     THEN SetPayment(FALSE, NoSelection, << >>, << >>, 0, resetTimers, fl,
                     FinalOrderInfo(c.draft, info, c.total), e)
     ELSE SetPayment(pySubmitting, selectedPayment, accountName, accountNumber,
                     submitAttempts, resetTimers, fl,
                     FinalOrderInfo(c.draft, info, c.total), e)

\* the error path of handlePayment emptying the form as the success path does
PaymentThrew_FormCleared(c, fl, toast) ==
  SetPayment(FALSE, NoSelection, << >>, << >>, 0, resetTimers, fl, orderInfo,
             PaymentEvent(c, "threw", {toast, "type_error"}, << >>, TRUE))

\* validatePaymentData returned undefined: reading .isValid throws, the
\* catch block reports the TypeError and shows its message
PaymentThrew(c, fl, toast) ==
  LET e == PaymentEvent(c, "threw", {toast, "type_error"}, << >>, TRUE)
  IN IF c.mounted
     THEN SetPayment(FALSE, selectedPayment, accountName, accountNumber, 0,
                     resetTimers, fl, orderInfo, e)
     ELSE SetPayment(pySubmitting, selectedPayment, accountName, accountNumber,
                     submitAttempts, resetTimers, fl, orderInfo, e)

\* one invocation of handlePayment, up to its end or to the await of the
\* mobile validator
HandlePayment ==
  LET attempts == submitAttempts + 1 IN
  IF attempts > 1
  THEN /\ attempts <= MaxAttempts
       /\ resetTimers < MaxTimers
       /\ SetPayment(pySubmitting, selectedPayment, accountName, accountNumber,
                     attempts, resetTimers + 1, flights, orderInfo,
                     PaymentEvent(Closure, "rejected", {"processing"}, << >>,
                                  FALSE))
  ELSE IF selectedPayment = NoSelection
  THEN SetPayment(FALSE, selectedPayment, accountName, accountNumber, 0,
                  resetTimers, flights, orderInfo,
                  PaymentEvent(Closure, "invalid", {"select_payment"}, << >>,
                               FALSE))
  ELSE
    LET kind == ValidatePaymentData(selectedPayment, accountName, accountNumber)
    IN CASE kind = "valid" -> PaymentAccepted(Closure, flights)
         [] kind \in {"required", "name"} ->
              SetPayment(FALSE, selectedPayment, accountName, accountNumber, 0,
                         resetTimers, flights, orderInfo,
                         PaymentEvent(Closure, "invalid", {kind}, << >>,
                                      FALSE))
         [] kind \in {"length", "pattern"} ->
              PaymentThrew(Closure, flights, kind)
         [] kind = "djibouti" ->
              /\ Len(flights) < MaxFlights
              /\ SetPayment(TRUE, selectedPayment, accountName, accountNumber,
                            attempts, resetTimers, Append(flights, Closure),
                            orderInfo,
                            PaymentEvent(Closure, "suspended", {}, << >>,
                                         FALSE))

\* validateDjiboutiPayment settles and the suspended handlePayment resumes
DjiboutiSettles(i) ==
  /\ i \in 1..Len(flights)
  /\ LET c == flights[i]
         fl == RemoveAt(flights, i)
     IN IF ValidateDjiboutiPayment(Trim(c.name), StripNonDigits(c.number))
        THEN PaymentAccepted(c, fl)
        ELSE PaymentThrew(c, fl, "djibouti_invalid")

\* the callback of setTimeout(() => { submitAttempts.current = 0 }, 5000)
ResetTimerFires ==
  /\ resetTimers > 0
  /\ SetPayment(pySubmitting, selectedPayment, accountName, accountNumber, 0,
                resetTimers - 1, flights, orderInfo,
                Event("resetTimer", "done", {}, << >>, FALSE, FALSE))

-----------------------------------------------------------------------------
(* Payment: what is rendered, and the form's controls *)

\* the three returns of Payment
PaymentView ==
  IF pyLoading THEN "skeleton"
  ELSE IF CartCount(cart) = 0 THEN "empty"
  ELSE "form"

FormRendered == page = "payment" /\ PaymentView = "form"

\* {!isCashPayment && selectedPayment && (...)}: the two inputs
InputsRendered ==
  FormRendered /\ selectedPayment # NoSelection /\ ~IsCash(selectedPayment)

\* disabled={isSubmitting || !selectedPayment ||
\*           (!isCashPayment && (!nameValid || !numberValid))}
PayButtonEnabled ==
  /\ FormRendered
  /\ ~pySubmitting
  /\ selectedPayment # NoSelection
  /\ IsCash(selectedPayment) \/ (nameValid = "true" /\ numberValid = "true")

SetForm(sel, name, number, nv, mv, op) ==
  /\ selectedPayment' = sel
  /\ accountName' = name
  /\ accountNumber' = number
  /\ nameValid' = nv
  /\ numberValid' = mv
  /\ ev' = Event(op, "done", {}, << >>, FALSE, FALSE)
  /\ UNCHANGED << page, nav, cartVars, shellVars, orderInfo, orderId, pyLoading,
                  dataInitialized, pySubmitting, submitAttempts, resetTimers,
                  flights, reviewVars >>

\* handlePaymentChange, and the effect that empties the fields when the
\* selection becomes a cash one
SelectPayment(p) ==
  /\ FormRendered
  /\ p # selectedPayment
  /\ IF IsCash(p) /\ ~IsCash(selectedPayment)
     THEN SetForm(p, << >>, << >>, "null", "null", "select")
     ELSE SetForm(p, accountName, accountNumber, "null", "null", "select")

\* handleAccountNameChange
TypeName(value) ==
  /\ InputsRendered
  /\ value # accountName
  /\ SetForm(selectedPayment, value, accountNumber, LiveNameValid(value),
             numberValid, "typeName")

\* handleAccountNumberChange
TypeNumber(value) ==
  /\ InputsRendered
  /\ StripNonDigits(value) # accountNumber
  /\ SetForm(selectedPayment, accountName, StripNonDigits(value), nameValid,
             LiveNumberValid(value), "typeNumber")

\* a click on a rendered control that is disabled runs no handler
ClickIgnored(op) ==
  /\ ev' = Event(op, "ignored", {}, << >>, FALSE, FALSE)
  /\ UNCHANGED << page, nav, cartVars, shellVars, orderInfo, orderId,
                  paymentVars, reviewVars >>

\* a click on the submit button
ClickPay ==
  /\ FormRendered
  /\ IF PayButtonEnabled THEN HandlePayment ELSE ClickIgnored("clickPay")

\* handlePayment called as a callback, whatever the button shows
InvokeHandlePayment == page = "payment" /\ HandlePayment

-----------------------------------------------------------------------------
(* ReviewOrder: what is rendered, and the confirm action *)

\* the three returns of ReviewOrder
ReviewView ==
  IF rvLoading THEN "skeleton"
  ELSE IF ~HasPaymentInfo(orderInfo) THEN "nothing"
  ELSE "recap"

ConfirmButtonRendered == page = "review" /\ ReviewView = "recap"

\* isCashPayment of ReviewOrder
ReviewIsCash(draft) ==
  /\ HasPaymentInfo(draft)
  /\ (draft.paymentInfo.typePayment = "CASH" \/ draft.paymentInfo.isCashPayment)

\* the label of the total written for every payment method alike
ReviewTotalLabel_AlwaysToPay(draft) == "Total a payer"

\* isCashPayment ? "Total à préparer:" : "Total à payer:"
ReviewTotalLabel(draft) ==
  IF ReviewIsCash(draft) THEN "Total a preparer" ELSE "Total a payer"

\* totalAmount of ReviewOrder: cartTotal?.toFixed(2) || "0.00"
ReviewTotalAmount == ToFixed2(cartTotal)

\* the confirm button without its disabled attribute
ConfirmButtonEnabled_NeverDisabled == ConfirmButtonRendered

\* disabled={isSubmitting}
ConfirmButtonEnabled == ConfirmButtonRendered /\ ~rvSubmitting

SetReview(sub, pending, orphans, id, e) ==
  /\ rvSubmitting' = sub
  /\ rvPending' = pending
  /\ orphanOrders' = orphans
  /\ orderId' = id
  /\ ev' = e
  /\ nav' = NavAfter(e.pushes)
  /\ UNCHANGED << page, cartVars, shellVars, orderInfo, paymentVars,
                  rvLoading >>

\* handleConfirmOrder without its final check of the draft
HandleConfirmOrder_Unchecked ==
  /\ rvPending + orphanOrders < MaxOrders
  /\ SetReview(TRUE, rvPending + 1, orphanOrders, orderId,
               Event("handleConfirmOrder", "dispatched", {}, << >>, FALSE, TRUE))

\* handleConfirmOrder up to the await of addOrder(orderInfo)
HandleConfirmOrder ==
  IF ~HasPaymentInfo(orderInfo)
  THEN SetReview(FALSE, rvPending, orphanOrders, orderId,
                 Event("handleConfirmOrder", "incomplete", {"order_incomplete"},
                       << "/payment" >>, FALSE, FALSE))
  ELSE /\ rvPending + orphanOrders < MaxOrders
       /\ SetReview(TRUE, rvPending + 1, orphanOrders, orderId,
                    Event("handleConfirmOrder", "dispatched", {}, << >>, FALSE,
                          TRUE))

\* a click on the confirm button
ClickConfirm ==
  /\ ConfirmButtonRendered
  /\ IF ConfirmButtonEnabled THEN HandleConfirmOrder
     ELSE ClickIgnored("clickConfirm")

\* handleConfirmOrder called as a callback, whatever is rendered
InvokeHandleConfirmOrder == page = "review" /\ HandleConfirmOrder

ServerOrderId == "order-1"

\* addOrder of OrderContext: on success the context keeps the id the server
\* gave the order and sends the router to /confirmation; on failure the
\* promise is rejected
AddOrder(ok) ==
  IF ok
  THEN [id |-> ServerOrderId, pushes |-> << "/confirmation" >>, threw |-> FALSE]
  ELSE [id |-> orderId, pushes |-> << >>, threw |-> TRUE]

\* what the rest of handleConfirmOrder does once addOrder has settled: the
\* catch block reports a rejection and shows a toast
AfterAddOrder(ok) ==
  Event("addOrder", IF AddOrder(ok).threw THEN "rejected" ELSE "resolved",
        IF AddOrder(ok).threw THEN {"confirm_error"} ELSE {},
        AddOrder(ok).pushes, AddOrder(ok).threw, FALSE)

\* handleConfirmOrder resuming without a finally block
AddOrderSettles_NoFinally(ok) ==
  /\ rvPending > 0
  /\ SetReview(rvSubmitting, rvPending - 1, orphanOrders, AddOrder(ok).id,
               AfterAddOrder(ok))

\* addOrder settles and handleConfirmOrder resumes; its finally block
\* releases isSubmitting
AddOrderSettles(ok) ==
  /\ rvPending > 0
  /\ SetReview(FALSE, rvPending - 1, orphanOrders, AddOrder(ok).id,
               AfterAddOrder(ok))

\* the same for a call made by a ReviewOrder that is no longer mounted: its
\* state is gone, only the context and the router are touched
OrphanOrderSettles(ok) ==
  /\ orphanOrders > 0
  /\ SetReview(rvSubmitting, rvPending, orphanOrders - 1, AddOrder(ok).id,
               AfterAddOrder(ok))

-----------------------------------------------------------------------------
(* Confirmation *)

NoOrderIds == {"undefined", "null"}

\* Confirmation testing orderId against null only
ConfirmationView_NullOnly ==
  IF orderId = "null" THEN "not_found" ELSE "content"

\* if (orderId === undefined || orderId === null) return notFound();
ConfirmationView ==
  IF orderId = "undefined" \/ orderId = "null" THEN "not_found" ELSE "content"

-----------------------------------------------------------------------------
(* Navigation: a page is mounted, and its entry effect runs *)

Pages == {"home", "cart", "payment", "review", "confirmation"}

PageOf(path) ==
  CASE path = "/cart" -> "cart"
    [] path = "/payment" -> "payment"
    [] path = "/review-order" -> "review"
    [] path = "/confirmation" -> "confirmation"

\* initializePaymentPage without the guard on the cart totals
InitializePaymentPage_Unguarded(c) ==
  [toasts |-> {}, pushes |-> << >>, initialized |-> TRUE]

\* initializePaymentPage after setOrderInfo({ orderItems }): the guard on
\* the cart totals
InitializePaymentPage(c) ==
  IF CartTotal(c) = 0 \/ CartTotal(c) < 0 \/ CartCount(c) < 0
  THEN [toasts |-> {"order_incomplete"}, pushes |-> << "/cart" >>,
        initialized |-> FALSE]
  ELSE [toasts |-> {}, pushes |-> << >>, initialized |-> TRUE]

\* suspended invocations outlive the Payment that made them
Orphaned(fl) == [i \in 1..Len(fl) |-> [fl[i] EXCEPT !.mounted = FALSE]]

EntryEvent(target) ==
  CASE target = "payment" ->
         Event("initializePaymentPage", "done",
               InitializePaymentPage(cart).toasts,
               InitializePaymentPage(cart).pushes, FALSE, FALSE)
    [] target = "review" ->
         Event("checkOrderData", "done", CheckOrderData(orderInfo, cart).toasts,
               CheckOrderData(orderInfo, cart).pushes, FALSE, FALSE)
    [] OTHER -> Event("mount", "done", {}, << >>, FALSE, FALSE)

\* the route target is rendered: the page left is unmounted, the page
\* entered starts from its initial state and runs its entry effect
Enter(target) ==
  /\ page' = target
  /\ ev' = EntryEvent(target)
  /\ nav' = IF EntryEvent(target).pushes = << >> THEN "none"
            ELSE EntryEvent(target).pushes[1]
  /\ orderInfo' = IF target = "payment" THEN ItemsDraft(cart) ELSE orderInfo
  /\ pyLoading' = (target # "payment")
  /\ dataInitialized' =
       (target = "payment" /\ InitializePaymentPage(cart).initialized)
  /\ pySubmitting' = FALSE
  /\ selectedPayment' = NoSelection
  /\ accountName' = << >>
  /\ accountNumber' = << >>
  /\ nameValid' = "null"
  /\ numberValid' = "null"
  /\ submitAttempts' = 0
  /\ resetTimers' = 0
  /\ flights' = Orphaned(flights)
  /\ rvLoading' = (target # "review")
  /\ rvSubmitting' = FALSE
  /\ rvPending' = 0
  /\ orphanOrders' = orphanOrders + rvPending
  /\ UNCHANGED << cartVars, shellVars, orderId >>

\* the navigation started by router.push completes
NavComplete ==
  /\ nav # "none"
  /\ IF PageOf(nav) = page
     THEN /\ nav' = "none"
          /\ ev' = Event("navigate", "same", {}, << >>, FALSE, FALSE)
          /\ UNCHANGED << page, cartVars, shellVars, orderInfo, orderId,
                          paymentVars, reviewVars >>
     ELSE Enter(PageOf(nav))

\* the user follows a link or the browser history; the contexts are kept
UserGoto(target) ==
  /\ target \in Pages
  /\ target # page
  /\ Enter(target)

-----------------------------------------------------------------------------
(* Cart actions of CartContext *)

SetCart(c) ==
  /\ cart' = c
  /\ cartTotal' = CartTotal(c)
  /\ cartCount' = CartCount(c)
  /\ ev' = Event("cart", "done", {}, << >>, FALSE, FALSE)
  /\ UNCHANGED << page, nav, orderInfo, orderId, paymentVars, reviewVars,
                  shellVars >>

\* a product is added from the shop pages
AddItemToCart(p) ==
  /\ page = "home"
  /\ cart[p] < MaxQty
  /\ SetCart([cart EXCEPT ![p] = @ + 1])

\* a line is removed on the cart page
DeleteItemFromCart(p) ==
  /\ page = "cart"
  /\ cart[p] > 0
  /\ SetCart([cart EXCEPT ![p] = 0])

-----------------------------------------------------------------------------
(* The cart of CartContext under its four mutations *)

\* the variables of the checkout pages, which the header and the error
\* boundaries leave alone
checkoutVars ==
  << page, nav, orderInfo, orderId, paymentVars, reviewVars, ev, site >>

CatalogCarts == [Catalog -> 0..MaxCartQty]
NoLines == [p \in Catalog |-> 0]

\* a mutation that publishes the new lines and leaves the totals as they were
PublishCart_StaleTotals(c) ==
  /\ cart' = c
  /\ UNCHANGED << cartTotal, cartCount >>

\* the context publishes the new lines with the totals recomputed from them
PublishCart(c) ==
  /\ cart' = c
  /\ cartTotal' = CartTotal(c)
  /\ cartCount' = CartCount(c)

CartMutation(c) ==
  /\ PublishCart(c)
  /\ calls' = << >>
  /\ UNCHANGED << user, signingOut, boundary, checkoutVars >>

\* addItemToCart: a product not yet in the cart gets a line of quantity 1
CartAdd(p) ==
  /\ user = "user"
  /\ cart[p] = 0
  /\ CartMutation([cart EXCEPT ![p] = 1])

\* updateCart(item, INCREASE)
CartIncrease(p) ==
  /\ user = "user"
  /\ cart[p] > 0
  /\ cart[p] < MaxCartQty
  /\ CartMutation([cart EXCEPT ![p] = @ + 1])

\* updateCart(item, DECREASE): a line that would reach 0 is removed
CartDecrease(p) ==
  /\ user = "user"
  /\ cart[p] > 0
  /\ CartMutation([cart EXCEPT ![p] = @ - 1])

\* deleteItemFromCart
CartRemove(p) ==
  /\ user = "user"
  /\ cart[p] > 0
  /\ CartMutation([cart EXCEPT ![p] = 0])

-----------------------------------------------------------------------------
(* Header: the two logout buttons *)

\* handleSignOut up to its await: clearUser(); clearCartOnLogout();
\* signOut({ callbackUrl: "/login" })
HandleSignOutCalls == << "clearUser", "clearCartOnLogout", "signOut" >>

\* onClick={() => signOut({ callbackUrl: "/login" })} of UserDropdown
DropdownSignOutCalls == << "signOut" >>

Has(seq, x) == \E i \in 1..Len(seq) : seq[i] = x

\* the contexts after a task that made these calls: clearUser empties the
\* user, clearCartOnLogout empties the cart and its totals
AfterHeaderCalls(cs) ==
  /\ calls' = cs
  /\ signingOut' = Has(cs, "signOut")
  /\ user' = IF Has(cs, "clearUser") THEN "null" ELSE user
  /\ IF Has(cs, "clearCartOnLogout") THEN PublishCart(NoLines)
     ELSE UNCHANGED cartVars
  /\ UNCHANGED << boundary, checkoutVars >>

\* the 'Déconnexion' button of the desktop user dropdown
ClickDropdownSignOut ==
  /\ user = "user"
  /\ ~signingOut
  /\ AfterHeaderCalls(DropdownSignOutCalls)

\* the 'Déconnexion' button of the mobile menu: closeMobileMenu() and
\* handleSignOut()
ClickMobileSignOut ==
  /\ user = "user"
  /\ ~signingOut
  /\ AfterHeaderCalls(HandleSignOutCalls)

\* signOut has settled: the browser loads /login, with no user and no cart
SignOutSettles ==
  /\ signingOut
  /\ signingOut' = FALSE
  /\ user' = "null"
  /\ PublishCart(NoLines)
  /\ calls' = << >>
  /\ UNCHANGED << boundary, checkoutVars >>

\* a login: the user is set and the cart is hydrated from the server
Login(c) ==
  /\ user = "null"
  /\ ~signingOut
  /\ user' = "user"
  /\ PublishCart(c)
  /\ calls' = << >>
  /\ UNCHANGED << signingOut, boundary, checkoutVars >>

-----------------------------------------------------------------------------
(* The route error boundaries (app/payment/error.jsx and the like) *)

BoundaryRoutes == {"payment", "review-order", "confirmation", "cart"}
Errors == {"e1", "e2"}
NoBoundary == [route |-> "none", error |-> "none"]

\* an effect without its dependency array runs after every render
BoundaryEffect_EveryRender(prev, next) == << "captureException" >>

\* useEffect(() => { Sentry.captureException(error, ...) }, [error]): run
\* after the first render and after a render with another error
BoundaryEffect(prev, next) ==
  IF prev # next THEN << "captureException" >> ELSE << >>

\* the names of the tags each boundary passes to Sentry.captureException
BoundaryTags(r) ==
  IF r = "cart"
  THEN {"error_boundary", "component", "page", "critical"}
  ELSE {"error_boundary", "component", "page", "critical", "business_impact"}

\* handleRetry: reset(); router.refresh();
HandleRetryCalls == << "reset", "router.refresh" >>

SetBoundary(b, cs) ==
  /\ boundary' = b
  /\ calls' = cs
  /\ UNCHANGED << cartVars, user, signingOut, checkoutVars >>

\* a route segment throws: its error boundary is mounted with the error
BoundaryMounts(r, e) ==
  /\ boundary = NoBoundary
  /\ SetBoundary([route |-> r, error |-> e], BoundaryEffect("none", e))

\* the boundary is rendered again, with the same error or another one
BoundaryRenders(e) ==
  /\ boundary # NoBoundary
  /\ SetBoundary([boundary EXCEPT !.error = e],
                 BoundaryEffect(boundary.error, e))

\* the retry button: the error state is cleared and the segment rendered
\* again
ClickRetry ==
  /\ boundary # NoBoundary
  /\ SetBoundary(NoBoundary, HandleRetryCalls)

-----------------------------------------------------------------------------
(* The header, the cart and the error boundaries on their own *)

HydratedCarts == {NoLines, [p \in Catalog |-> IF p = "p3" THEN 0 ELSE 1]}

\* the checkout pages not entered, a signed-in user with an empty cart
AppStart ==
  /\ page = "home"
  /\ nav = "none"
  /\ cart = NoLines
  /\ cartTotal = 0
  /\ cartCount = 0
  /\ orderInfo = NoDraft
  /\ orderId = "null"
  /\ pyLoading = TRUE
  /\ dataInitialized = FALSE
  /\ pySubmitting = FALSE
  /\ selectedPayment = NoSelection
  /\ accountName = << >>
  /\ accountNumber = << >>
  /\ nameValid = "null"
  /\ numberValid = "null"
  /\ submitAttempts = 0
  /\ resetTimers = 0
  /\ flights = << >>
  /\ rvLoading = TRUE
  /\ rvSubmitting = FALSE
  /\ rvPending = 0
  /\ orphanOrders = 0
  /\ ev = NoEvent
  /\ user = "user"
  /\ signingOut = FALSE
  /\ boundary = NoBoundary
  /\ calls = << >>

InitShell == AppStart /\ site = NoSite

NextShell ==
  \/ \E p \in Catalog : CartAdd(p)
  \/ \E p \in Catalog : CartIncrease(p)
  \/ \E p \in Catalog : CartDecrease(p)
  \/ \E p \in Catalog : CartRemove(p)
  \/ ClickDropdownSignOut
  \/ ClickMobileSignOut
  \/ SignOutSettles
  \/ \E c \in HydratedCarts : Login(c)
  \/ \E r \in BoundaryRoutes, e \in Errors : BoundaryMounts(r, e)
  \/ \E e \in Errors : BoundaryRenders(e)
  \/ ClickRetry

SpecShell == InitShell /\ [][NextShell]_vars

-----------------------------------------------------------------------------
(* The checkout as the browser runs it *)

DashedShort == << "1", "2", "-", "3" >>
GoodMobile == << "7", "7", "2", "3", "4", "5", "6", "7" >>
GoodNumber == << "1", "2", "3", "4" >>
OneWordName == << "a", "a" >>
GoodName == << "a", "a", " ", "a", "a" >>
Init ==
  /\ page = "home"
  /\ nav = "none"
  /\ cart \in Carts
  /\ cartTotal = CartTotal(cart)
  /\ cartCount = CartCount(cart)
  /\ user = "user"
  /\ signingOut = FALSE
  /\ boundary = NoBoundary
  /\ calls = << >>
  /\ site = NoSite
  /\ orderInfo = NoDraft
  /\ orderId \in NoOrderIds
  /\ pyLoading = TRUE
  /\ dataInitialized = FALSE
  /\ pySubmitting = FALSE
  /\ selectedPayment = NoSelection
  /\ accountName = << >>
  /\ accountNumber = << >>
  /\ nameValid = "null"
  /\ numberValid = "null"
  /\ submitAttempts = 0
  /\ resetTimers = 0
  /\ flights = << >>
  /\ rvLoading = TRUE
  /\ rvSubmitting = FALSE
  /\ rvPending = 0
  /\ orphanOrders = 0
  /\ ev = NoEvent

UiNames == {GoodName, OneWordName}
UiNumbers == {GoodMobile, GoodNumber, DashedShort}

Next ==
  \/ \E t \in Pages : UserGoto(t)
  \/ NavComplete
  \/ \E p \in Products : AddItemToCart(p)
  \/ \E p \in Products : DeleteItemFromCart(p)
  \/ \E p \in PaymentTypes : SelectPayment(p)
  \/ \E v \in UiNames : TypeName(v)
  \/ \E v \in UiNumbers : TypeNumber(v)
  \/ ClickPay
  \/ \E i \in 1..MaxFlights : DjiboutiSettles(i)
  \/ ClickConfirm
  \/ \E ok \in BOOLEAN : AddOrderSettles(ok)
  \/ \E ok \in BOOLEAN : OrphanOrderSettles(ok)

Spec == Init /\ [][Next]_vars

\* the same with the two submit handlers also called as callbacks, past
\* the rendered buttons
NextDirect ==
  \/ Next
  \/ InvokeHandlePayment
  \/ InvokeHandleConfirmOrder
  \/ ResetTimerFires

SpecDirect == Init /\ [][NextDirect]_vars

-----------------------------------------------------------------------------
(* The payment form on its own: the fields hold any typed text, and        *)
(* handlePayment is called whatever the submit button shows.               *)

StringsUpTo(S, n) == UNION { [1..k -> S] : k \in 0..n }

Pad(first, rest, n) == [i \in 1..n |-> IF i = 1 THEN first ELSE rest]

NameInputs == StringsUpTo(NameChars, MaxNameLen)

\* numbers around the upper limit, with and without a leading separator
LongNumbers ==
  { Pad(a, b, n) : a \in {"0", "1", "-"}, b \in {"0", "1"},
                   n \in (MaxAccountDigits - 1)..(MaxAccountDigits + LongOver) }

\* numbers around the local mobile format
MobileNumbers ==
  SimpleNumbers \cup
  { << "7", "7", "7", "7", "7", "7", "7", "7" >>,
    << "7", "7", "2", "3", "4", "5", "6", "7" >>,
    << "1", "2", "3", "4", "5", "6", "7", "8" >>,
    << "7", "8", "1", "2", "3", "4", "5", "6" >>,
    << "7", "7", "1", "2", "3", "4", "5" >>,
    << "7", "7", "-", "2", "3", "4", "5", "6", "7" >>,
    << "7", "7", "1", "2", "3", "4", "5", "6", "7" >> }

NumberInputs == StringsUpTo(NumChars, MaxNumLen) \cup LongNumbers \cup MobileNumbers


SampleNames == {GoodName, OneWordName}
SampleNumbers == {GoodNumber, GoodMobile, << >>}

FormInputs == (NameInputs \X SampleNumbers) \cup (SampleNames \X NumberInputs)

FormCart == [p \in Products |-> 1]

InitForm ==
  \E sel \in PaymentTypes, in \in FormInputs :
    /\ page = "payment"
    /\ nav = "none"
    /\ cart = FormCart
    /\ cartTotal = CartTotal(cart)
    /\ cartCount = CartCount(cart)
    /\ user = "user"
    /\ signingOut = FALSE
    /\ boundary = NoBoundary
    /\ calls = << >>
    /\ site = NoSite
    /\ orderInfo = ItemsDraft(FormCart)
    /\ orderId = "null"
    /\ pyLoading = FALSE
    /\ dataInitialized = TRUE
    /\ pySubmitting = FALSE
    /\ selectedPayment = sel
    /\ accountName = in[1]
    /\ accountNumber = StripNonDigits(in[2])
    /\ nameValid = LiveNameValid(in[1])
    /\ numberValid = LiveNumberValid(in[2])
    /\ submitAttempts = 0
    /\ resetTimers = 0
    /\ flights = << >>
    /\ rvLoading = TRUE
    /\ rvSubmitting = FALSE
    /\ rvPending = 0
    /\ orphanOrders = 0
    /\ ev = NoEvent

NextForm ==
  \/ InvokeHandlePayment
  \/ \E i \in 1..MaxFlights : DjiboutiSettles(i)
  \/ ResetTimerFires
  \/ \E p \in PaymentTypes : SelectPayment(p)
  \/ TypeName(GoodName)
  \/ TypeNumber(GoodMobile)

SpecForm == InitForm /\ [][NextForm]_vars

TypeOKForm == Len(flights) <= MaxFlights /\ submitAttempts <= MaxAttempts

-----------------------------------------------------------------------------
(* The claims on the payment form *)

\* the last task was a handlePayment invocation that passed the counter guard
PassedGuard == ev.op = "handlePayment" /\ ev.result # "rejected"

\* ... with a method selected that is not a cash one
NonCashSubmit ==
  PassedGuard /\ ev.input.sel # NoSelection /\ ~IsCash(ev.input.sel)

\* the words of a name: the maximal runs of characters that are not whitespace
WordRuns(s) ==
  { r \in (1..Len(s)) \X (1..Len(s)) :
      /\ r[1] <= r[2]
      /\ \A k \in r[1]..r[2] : s[k] \notin Ws
      /\ r[1] = 1 \/ s[r[1] - 1] \in Ws
      /\ r[2] = Len(s) \/ s[r[2] + 1] \in Ws }

\* at least 2 words, each of at least 2 characters
TwoFullWords(s) ==
  /\ Cardinality(WordRuns(s)) >= 2
  /\ \A r \in WordRuns(s) : r[2] - r[1] + 1 >= 2

\* 77 followed by 6 digits
MobilePattern(d) ==
  /\ Len(d) = 8
  /\ SubSeq(d, 1, 2) = << "7", "7" >>
  /\ \A i \in 1..Len(d) : d[i] \in DigitChars

\* 4 to 30 digits, not all zeros, not one digit repeated
PlainNumberOk(d) ==
  /\ Len(d) >= 4
  /\ Len(d) <= 30
  /\ \E i \in 1..Len(d) : d[i] # "0"
  /\ \A c \in DigitChars : \E i \in 1..Len(d) : d[i] # c

\* C2: at most one handlePayment invocation is past the counter guard and
\* not finished, and an invocation made while one is in flight is rejected
\* with the "processing" toast, without validating, writing the draft or
\* navigating.
C2_OneSubmissionInFlight ==
  /\ Len(flights) <= 1
  /\ (ev.op = "handlePayment" /\ ev.inFlight > 0
        /\ ev.result \notin {"accepted", "threw"}) =>
       ( /\ ev.result = "rejected"
         /\ ev.toasts = {"processing"}
         /\ ev.pushes = << >> )

\* C8: with a cash method selected, a payment submit succeeds whatever the
\* name and number fields hold: paymentInfo is written to the draft for the
\* cash payment and the router is sent to /review-order.
C8_CashAlwaysValid ==
  (PassedGuard /\ IsCash(ev.input.sel)) =>
    ( /\ ev.result = "accepted"
      /\ ev.toasts = {}
      /\ ev.pushes = << "/review-order" >>
      /\ nav = "/review-order"
      /\ orderInfo.paymentInfo.present
      /\ orderInfo.paymentInfo.typePayment = ev.input.sel.platform
      /\ orderInfo.paymentInfo.isCashPayment
      /\ orderInfo.paymentInfo.paymentAccountNumber = CashNumber )

\* a cash submit was accepted with a one-word name and no number in the fields
C8_Witness ==
  /\ PassedGuard
  /\ IsCash(ev.input.sel)
  /\ ev.input.name = OneWordName
  /\ ev.input.number = << >>
  /\ ev.result = "accepted"

\* C9: a non-cash submit whose name does not consist of at least 2 words of
\* at least 2 characters each (empty, blank, one word, a short word) is
\* refused and writes nothing; a submit that gets as far as the number, or
\* is accepted, has such a name.
C9_NameRule ==
  NonCashSubmit =>
    ( /\ (~TwoFullWords(ev.input.name)) =>
           ( /\ ev.result = "invalid"
             /\ ev.toasts \subseteq {"required", "name"}
             /\ ev.pushes = << >> )
      /\ TwoFullWords(ev.input.name) => ("name" \notin ev.toasts)
      /\ (ev.result \in {"accepted", "suspended"}) => TwoFullWords(ev.input.name) )

\* a submit with a two-word name whose second word has one character was
\* refused for the name
C9_Witness ==
  /\ NonCashSubmit
  /\ ev.input.name = << "a", "a", " ", "a" >>
  /\ ev.input.number = GoodNumber
  /\ ev.toasts = {"name"}

\* C10: for a number outside the local mobile pattern, live validation marks
\* it valid, and a non-cash submit with a full name is accepted, exactly
\* when it has 4 to 30 digits that are neither all zeros nor one digit
\* repeated.
C10_PlainNumberRule ==
  /\ (ev.op \in {"none", "typeNumber"} /\ ~MobilePattern(accountNumber)) =>
       (numberValid = "true" <=> PlainNumberOk(accountNumber))
  /\ (NonCashSubmit /\ TwoFullWords(ev.input.name)
        /\ ~MobilePattern(ev.input.number)) =>
       ( /\ (ev.result = "accepted") <=> PlainNumberOk(ev.input.number)
         /\ (ev.result # "accepted") => (ev.pushes = << >>) )

\* a submit with a 31-digit number was refused
C10_Witness ==
  /\ NonCashSubmit
  /\ TwoFullWords(ev.input.name)
  /\ Len(ev.input.number) = 31
  /\ ev.result # "accepted"

\* the numbers of the mobile format that are refused all the same
RejectList ==
  { << "7", "7", "0", "0", "0", "0", "0", "0" >>,
    << "7", "7", "1", "1", "1", "1", "1", "1" >>,
    << "7", "7", "1", "2", "3", "4", "5", "6" >>,
    << "7", "7", "6", "5", "4", "3", "2", "1" >> }

\* C11: a number of the reject list, though of the mobile format, is marked
\* invalid by the live validation, and a non-cash submission with such a
\* number is never accepted: it pushes nothing and no draft ever carries
\* such a number in its paymentInfo.
C11_RejectListRefused ==
  /\ (ev.op \in {"none", "typeNumber"} /\ accountNumber \in RejectList) =>
       (MobilePattern(accountNumber) /\ numberValid = "false")
  /\ (NonCashSubmit /\ ev.input.number \in RejectList) =>
       (ev.result # "accepted" /\ ev.pushes = << >>)
  /\ (orderInfo.present /\ orderInfo.paymentInfo.present
        /\ ~orderInfo.paymentInfo.isCashPayment) =>
       orderInfo.paymentInfo.paymentAccountNumber \notin RejectList

\* a submission with a well-formed name and a number of the reject list was
\* refused once the mobile validator had answered
C11_Witness ==
  /\ NonCashSubmit
  /\ TwoFullWords(ev.input.name)
  /\ ev.input.number = << "7", "7", "1", "2", "3", "4", "5", "6" >>
  /\ ev.result = "threw"
  /\ numberValid = "false"
  /\ ~(orderInfo.present /\ orderInfo.paymentInfo.present)

\* form values that the submit-time rules refuse without asking the mobile
\* validator: no method, or a non-cash method with a missing or malformed
\* name, or with a number that is neither of the mobile format nor a plain
\* account number
FailsValidation(in) ==
  \/ in.sel = NoSelection
  \/ /\ ~IsCash(in.sel)
     /\ \/ ~TwoFullWords(in.name)
        \/ ~MobilePattern(in.number) /\ ~PlainNumberOk(in.number)

\* the last task was a handlePayment that ended on a validation failure
SubmitRefused(e) ==
  e.op = "handlePayment" /\ e.result \in {"invalid", "threw"}

\* C12: a handlePayment invocation whose data fails validation is blocked:
\* it is never accepted and, when it ends, the draft, the route under way
\* and the form fields are what they were, nothing was pushed, and at least
\* one toast was shown.
C12_SubmitBlocksInvalid ==
  [][ /\ (ev'.op = "handlePayment" /\ ev'.result # "rejected"
            /\ FailsValidation(ev'.input)) => SubmitRefused(ev')
      /\ SubmitRefused(ev') =>
           ( /\ orderInfo' = orderInfo
             /\ nav' = nav
             /\ ev'.pushes = << >>
             /\ selectedPayment' = selectedPayment
             /\ accountName' = accountName
             /\ accountNumber' = accountNumber
             /\ ev'.toasts # {} ) ]_vars

\* a submission with a number of three digits was refused and the form
\* still shows what was typed
C12_Witness ==
  /\ NonCashSubmit
  /\ TwoFullWords(ev.input.name)
  /\ Len(ev.input.number) = 3
  /\ ev.result = "threw"
  /\ accountNumber = ev.input.number
  /\ accountName = ev.input.name
  /\ ~(orderInfo.present /\ orderInfo.paymentInfo.present)

\* C13: a payment submission that fails validation sends no exception
\* report to the error-telemetry service.
C13_NoReportOnValidationFailure ==
  (ev.op = "handlePayment" /\ ev.result \in {"invalid", "threw"}) =>
    ~ev.captured

-----------------------------------------------------------------------------
(* The claims on the checkout flow *)

\* the cart holds no item
CartIsEmpty == \A p \in Products : cart[p] = 0

\* the draft carries no paymentInfo
DraftLacksPayment == ~orderInfo.present \/ ~orderInfo.paymentInfo.present

C3_RedirectDecision ==
  ev.op = "checkOrderData" =>
    ( /\ DraftLacksPayment =>
           (ev.pushes = << "/payment" >> /\ ev.toasts = {"payment_first"})
      /\ (~DraftLacksPayment /\ CartIsEmpty) =>
           (ev.pushes = << "/cart" >> /\ ev.toasts = {"cart_empty"})
      /\ (~DraftLacksPayment /\ ~CartIsEmpty) =>
           (ev.pushes = << >> /\ ev.toasts = {})
      /\ Len(ev.pushes) <= 1 )

\* the review step was entered with neither paymentInfo nor a cart item
C3_Witness ==
  page = "review" /\ ev.op = "checkOrderData" /\ DraftLacksPayment
    /\ CartIsEmpty /\ ev.pushes = << "/payment" >>

\* C4: the confirmation page is the not-found page exactly when the order
\* context holds no orderId (null or undefined), and its content otherwise.
C4_NotFoundWithoutOrderId ==
  page = "confirmation" =>
    /\ orderId \in {"null", "undefined"} => ConfirmationView = "not_found"
    /\ orderId \notin {"null", "undefined"} => ConfirmationView = "content"

\* the confirmation page was opened with an orderId never set
C4_Witness ==
  page = "confirmation" /\ orderId = "undefined"
    /\ ConfirmationView = "not_found"

\* C5: when the payment page initialises with an empty cart it pushes /cart
\* with an error toast, and as long as the page is shown with an empty cart
\* it renders the skeleton or the empty-cart view: no form, no inputs, no
\* submit button to press.
C5_EmptyCartNoForm ==
  /\ (ev.op = "initializePaymentPage" /\ CartTotal(cart) = 0
        /\ CartCount(cart) = 0) =>
       ( /\ ev.pushes = << "/cart" >>
         /\ ev.toasts = {"order_incomplete"}
         /\ nav = "/cart"
         /\ ~dataInitialized )
  /\ (page = "payment" /\ CartCount(cart) = 0) =>
       ( /\ PaymentView \in {"skeleton", "empty"}
         /\ ~FormRendered
         /\ ~InputsRendered
         /\ ~PayButtonEnabled
         /\ ev.op # "clickPay"
         /\ ~(ev.op = "handlePayment" /\ ev.result = "suspended") )

\* the payment page was entered with an empty cart
C5_Witness ==
  page = "payment" /\ ev.op = "initializePaymentPage" /\ CartTotal(cart) = 0
    /\ CartCount(cart) = 0 /\ PaymentView = "empty" /\ nav = "/cart"

\* C6: addOrder is dispatched only with a draft that carries paymentInfo,
\* paymentInfo enters the draft only in a handlePayment task that passed
\* validation, and handleConfirmOrder invoked on a draft without
\* paymentInfo dispatches nothing and pushes /payment.
C6_ForwardOnly ==
  [][ /\ ev'.sent =>
           (~DraftLacksPayment /\ orderInfo' = orderInfo
              /\ ev'.op = "handleConfirmOrder")
      /\ (DraftLacksPayment /\ ~DraftLacksPayment') =>
           (ev'.op = "handlePayment" /\ ev'.result = "accepted")
      /\ (ev'.op = "handleConfirmOrder" /\ DraftLacksPayment) =>
           ( /\ ~ev'.sent
             /\ ev'.pushes = << "/payment" >>
             /\ rvPending' = rvPending
             /\ orphanOrders' = orphanOrders ) ]_vars

\* handleConfirmOrder was invoked on a draft without paymentInfo
C6_Witness ==
  page = "review" /\ ev.op = "handleConfirmOrder" /\ DraftLacksPayment
    /\ ev.result = "incomplete" /\ nav = "/payment"

\* C7: whenever handleConfirmOrder dispatches addOrder, the cart holds at
\* least one item.
C7_NeverSubmitsEmptyCart ==
  (ev.op = "handleConfirmOrder" /\ ev.sent) => ~CartIsEmpty

-----------------------------------------------------------------------------
(* The claims on the cart, the header and the error boundaries *)

\* the sum of price x quantity, and of the quantities, over the lines
RECURSIVE LinesSum(_, _, _)
LinesSum(c, S, withPrice) ==
  IF S = {} THEN 0
  ELSE LET p == CHOOSE x \in S : TRUE
       IN (IF withPrice THEN Price[p] * c[p] ELSE c[p])
            + LinesSum(c, S \ {p}, withPrice)

CartLines(c) == {p \in DOMAIN c : c[p] # 0}

C15_ClearedBeforeSignOut ==
  \A k \in 1..Len(calls) :
    calls[k] = "signOut" =>
      /\ \E i \in 1..(k - 1) : calls[i] = "clearUser"
      /\ \E j \in 1..(k - 1) : calls[j] = "clearCartOnLogout"
      /\ user = "null"
      /\ CartLines(cart) = {}
      /\ cartCount = 0

\* C20: an error boundary reports the error once when it is mounted and
\* once when it is rendered with another error, and not when it is rendered
\* again with the same one; its retry calls reset and then router.refresh,
\* once each, and nothing else.
C20_BoundaryReportsAndRetries ==
  [][ /\ (boundary = NoBoundary /\ boundary' # NoBoundary) =>
           calls' = << "captureException" >>
      /\ (boundary # NoBoundary /\ boundary' # NoBoundary
            /\ boundary'.error # boundary.error) =>
           calls' = << "captureException" >>
      /\ (boundary # NoBoundary /\ boundary' = boundary) =>
           ~Has(calls', "captureException")
      /\ (boundary # NoBoundary /\ boundary' = NoBoundary) =>
           calls' = << "reset", "router.refresh" >>
      /\ (boundary = NoBoundary /\ boundary' = NoBoundary) =>
           /\ ~Has(calls', "captureException")
           /\ ~Has(calls', "reset")
           /\ ~Has(calls', "router.refresh") ]_vars

\* the retry button of a boundary was pressed
C20_Witness ==
  boundary = NoBoundary /\ calls = << "reset", "router.refresh" >>

-----------------------------------------------------------------------------
(* The claims on the draft *)

\* a task of handlePayment ended on the success path
SubmitAccepted(e) == e.op = "handlePayment" /\ e.result = "accepted"

\* x is c rounded to the hundredth
RoundedToCents(x, c) == x % 10 = 0 /\ 2 * (x - c) <= 10 /\ 2 * (c - x) < 10

\* C16: a successful payment submit leaves a draft that is the previous
\* draft with paymentInfo and totalAmount added: the orderItems are those
\* the draft had, totalAmount is cartTotal rounded to 2 decimals, the
\* payment type is the selected one, the number and name are those of the
\* form, and for CASH the number is "CASH" and isCashPayment is true.
C16_DraftBuiltIncrementally ==
  [][ SubmitAccepted(ev') =>
        LET in == ev'.input
            cash == in.sel.platform = "CASH" \/ in.sel.isCashPayment
        IN /\ orderInfo'.present
           /\ orderInfo'.orderItems = orderInfo.orderItems
           /\ RoundedToCents(orderInfo'.totalAmount, cartTotal)
           /\ orderInfo'.paymentInfo.present
           /\ orderInfo'.paymentInfo.typePayment = in.sel.platform
           /\ orderInfo'.paymentInfo.isCashPayment = cash
           /\ cash => orderInfo'.paymentInfo.paymentAccountNumber = << "CASH" >>
           /\ ~cash =>
                /\ orderInfo'.paymentInfo.paymentAccountNumber = in.number
                /\ orderInfo'.paymentInfo.paymentAccountName = Trim(in.name)
    ]_vars

\* a cash submit was accepted: the draft holds the items it had, the CASH
\* number and the rounded total
C16_Witness ==
  /\ SubmitAccepted(ev)
  /\ ev.input.sel.platform = "CASH"
  /\ orderInfo.orderItems = cart
  /\ orderInfo.paymentInfo.paymentAccountNumber = << "CASH" >>
  /\ orderInfo.paymentInfo.isCashPayment
  /\ cartTotal = 49996
  /\ orderInfo.totalAmount = 50000

\* C17: when the payment page is entered again after a payment submit, the
\* paymentInfo and the totalAmount the submit wrote are still in the draft
\* once the page has re-initialised.
C17_RevisitKeepsDraft ==
  [][ ( /\ page # "payment"
        /\ page' = "payment"
        /\ orderInfo.present
        /\ orderInfo.paymentInfo.present ) =>
        /\ orderInfo'.paymentInfo = orderInfo.paymentInfo
        /\ orderInfo'.totalAmount = orderInfo.totalAmount ]_vars

-----------------------------------------------------------------------------
(* The claims on the review step *)

\* C18: when addOrder fails for the review page that called it, the cart
\* and the order draft are unchanged, an error toast is shown, no route is
\* pushed and the review page stays, and isSubmitting is false again.
C18_FailedOrderKeepsData ==
  [][ ( /\ ev'.op = "addOrder"
        /\ ev'.result = "rejected"
        /\ rvPending' = rvPending - 1 ) =>
        /\ cart' = cart
        /\ cartTotal' = cartTotal
        /\ cartCount' = cartCount
        /\ orderInfo' = orderInfo
        /\ orderId' = orderId
        /\ "confirm_error" \in ev'.toasts
        /\ ev'.pushes = << >>
        /\ nav' = nav
        /\ page = "review"
        /\ page' = "review"
        /\ rvSubmitting
        /\ ~rvSubmitting' ]_vars

\* the order was refused: the review page is shown with its draft and cart,
\* and nothing is pending
C18_Witness ==
  /\ ev.op = "addOrder"
  /\ ev.result = "rejected"
  /\ page = "review"
  /\ nav = "none"
  /\ ~rvSubmitting
  /\ rvPending = 0
  /\ orderInfo.paymentInfo.present
  /\ cartCount > 0
  /\ ReviewView = "recap"

\* C19: on the recap of the review page, a draft whose payment is CASH
\* (typePayment CASH or isCashPayment true) has its total labelled 'Total à
\* préparer' and the amount shown is cartTotal, to the two decimals of the
\* display; any other draft has the label 'Total à payer'.
C19_CashTotalLabel ==
  (page = "review" /\ ReviewView = "recap") =>
    LET info == orderInfo.paymentInfo
        cash == info.typePayment = "CASH" \/ info.isCashPayment
    IN /\ cash =>
            /\ ReviewTotalLabel(orderInfo) = "Total a preparer"
            /\ RoundedToCents(ReviewTotalAmount, cartTotal)
       /\ ~cash => ReviewTotalLabel(orderInfo) = "Total a payer"

\* the recap of a cash order
C19_Witness ==
  /\ page = "review"
  /\ ReviewView = "recap"
  /\ orderInfo.paymentInfo.typePayment = "CASH"
  /\ ReviewTotalLabel(orderInfo) = "Total a preparer"
  /\ cartTotal = 49996
  /\ ReviewTotalAmount = 50000

-----------------------------------------------------------------------------
(* The claims on the reports *)

\* C21: the report of every route error boundary carries the route tags
\* (page, error_boundary), the criticality (critical) and the business
\* impact (business_impact).
C21_AllTagsAttached ==
  (boundary # NoBoundary /\ Has(calls, "captureException")) =>
    {"page", "error_boundary", "critical", "business_impact"}
      \subseteq BoundaryTags(boundary.route)

-----------------------------------------------------------------------------
(* The storefront components: each keeps its own state in `site` *)

\* everything but `site`
appVars == << cartVars, user, signingOut, boundary, calls, page, nav,
              orderInfo, orderId, paymentVars, reviewVars, ev >>

\* a task of the component exercised
SiteStep(c, st) ==
  /\ site.comp = c
  /\ site' = [site EXCEPT !.st = st]
  /\ UNCHANGED appVars

-----------------------------------------------------------------------------
(* monitoring/sentry.js: setUser and hashCode *)

\* hashCode(str): the 32-bit hash is kept as << high, low >> 16-bit halves.
\* Round is `hash = (hash << 5) - hash + char; hash = hash & hash`, Abs32 is
\* Math.abs of the signed value, and the result is its toString(16), as
\* character codes without leading zeros.
HashCode(str) ==
  LET W == 65536
      Round(h, ch) ==
        << (h[1] * 31 + ((h[2] * 31 + ch) \div W)) % W, (h[2] * 31 + ch) % W >>
      RECURSIVE Loop(_, _)
      Loop(h, i) == IF i > Len(str) THEN h ELSE Loop(Round(h, str[i]), i + 1)
      Abs32(h) ==
        IF h[1] < W \div 2 THEN h
        ELSE << (W - 1 - h[1] + (IF h[2] = 0 THEN 1 ELSE 0)) % W,
                (W - h[2]) % W >>
      Digit(d) == IF d < 10 THEN 48 + d ELSE 87 + d
      RECURSIVE Hex(_, _)
      Hex(n, pad) ==
        IF pad = 0 /\ n < 16 THEN << Digit(n) >>
        ELSE IF pad = 1 THEN << Digit(n % 16) >>
        ELSE Hex(n \div 16, IF pad = 0 THEN 0 ELSE pad - 1) \o << Digit(n % 16) >>
      v == Abs32(Loop(<< 0, 0 >>, 1))
  IN IF v[1] = 0 THEN Hex(v[2], 0) ELSE Hex(v[1], 0) \o Hex(v[2], 4)

\* "@anonymized.user"
AnonymizedSuffix ==
  << 64, 97, 110, 111, 110, 121, 109, 105, 122, 101, 100, 46, 117, 115,
     101, 114 >>

NoIdentity == [cleared |-> TRUE]

\* the object setUser hands to Sentry.setUser
Identity_RawEmail(u) ==
  IF u.null THEN NoIdentity
  ELSE [ id |-> u.id, email |-> u.email,
         role |-> IF u.role = "" THEN "user" ELSE u.role ]

Identity(u) ==
  IF u.null THEN NoIdentity
  ELSE [ id |-> IF u.id # "" THEN u.id ELSE u.mongoId,
         email |-> IF u.email # << >>
                   THEN HashCode(u.email) \o AnonymizedSuffix ELSE << >>,
         role |-> IF u.role = "" THEN "user" ELSE u.role ]

NullUser ==
  [ null |-> TRUE, id |-> "", mongoId |-> "", email |-> << >>, name |-> "",
    role |-> "" ]

\* the user objects of the session; their emails are none, "a", "a@",
\* "b@a.dj" (a negative hash), "ab@cd.dj" and "zz@zzzz.dj" (more than 32 bits)
Users ==
  { [ null |-> FALSE, id |-> i, mongoId |-> "m1", email |-> e, name |-> n,
      role |-> r ] :
      i \in {"", "u1"},
      e \in { << >>, << 97 >>, << 97, 64 >>, << 98, 64, 97, 46, 100, 106 >>,
              << 97, 98, 64, 99, 100, 46, 100, 106 >>,
              << 122, 122, 64, 122, 122, 122, 122, 46, 100, 106 >> },
      n \in {"Ann", "Bob"},
      r \in {"", "admin"} }

TelemetryStart ==
  [comp |-> "telemetry", st |-> [passed |-> NullUser, identity |-> NoIdentity]]

\* setUser(user), with a current scope
SetUser(u) == SiteStep("telemetry", [passed |-> u, identity |-> Identity(u)])

-----------------------------------------------------------------------------
(* ProductItem and ProductDetails: the add-to-cart buttons of one product *)

MaxClicks == 3

\* inCart: the cart of the last render has a line for the product;
\* adds, updates: the addItemToCart and updateCart(line, INCREASE) calls made;
\* pending: calls whose result the cart state does not show yet;
\* isAddingToCart, timer: the guard of ProductDetails and its 500 ms timer
ProductStart ==
  [ comp |-> "product",
    st |-> [ inCart |-> FALSE, adds |-> 0, updates |-> 0, pending |-> 0,
             isAddingToCart |-> FALSE, timers |-> 0 ] ]

\* the body shared by both handlers: cart.find(...) ? updateCart : addItemToCart
AddOrIncrease(st) ==
  IF st.inCart
  THEN [st EXCEPT !.updates = @ + 1, !.pending = @ + 1]
  ELSE [st EXCEPT !.adds = @ + 1, !.pending = @ + 1]

\* addToCartHandler of ProductItem, for a signed-in user
AddToCartHandler ==
  /\ site.comp = "product"
  /\ site.st.adds + site.st.updates < MaxClicks
  /\ SiteStep("product", AddOrIncrease(site.st))

\* handleAddToCart of ProductDetails, for a signed-in user and a product in
\* stock: a call while isAddingToCart returns at once
HandleAddToCart ==
  /\ site.comp = "product"
  /\ site.st.adds + site.st.updates < MaxClicks
  /\ IF site.st.isAddingToCart
     THEN SiteStep("product", site.st)
     ELSE SiteStep("product",
                   [ AddOrIncrease(site.st) EXCEPT !.isAddingToCart = TRUE,
                                                   !.timers = @ + 1 ])

\* setTimeout(() => setIsAddingToCart(false), 500)
AddingTimerFires ==
  /\ site.comp = "product"
  /\ site.st.timers > 0
  /\ SiteStep("product",
              [site.st EXCEPT !.timers = @ - 1, !.isAddingToCart = FALSE])

\* the cart state is set from the answer to a call: the product has a line
CartRefreshed ==
  /\ site.comp = "product"
  /\ site.st.pending > 0
  /\ SiteStep("product", [site.st EXCEPT !.pending = @ - 1, !.inCart = TRUE])

-----------------------------------------------------------------------------
(* Header: loadCart *)

MaxLoads == 3

\* ref: isCartLoadingRef.current; isLoadingCart: the state of that name;
\* pending: setCartToState calls not settled; loads: those made so far;
\* reports: the Sentry.captureException calls of loadCart
HeaderStart ==
  [ comp |-> "header",
    st |-> [ ref |-> FALSE, isLoadingCart |-> FALSE, pending |-> 0,
             loads |-> 0, reports |-> 0 ] ]

\* loadCart without the test of isCartLoadingRef
LoadCart_Unguarded ==
  /\ site.comp = "header"
  /\ site.st.loads < MaxLoads
  /\ SiteStep("header",
              [ site.st EXCEPT !.ref = TRUE, !.isLoadingCart = TRUE,
                               !.pending = @ + 1, !.loads = @ + 1 ])

\* loadCart, called by the session effect or by its CART_LOAD_DELAY timer,
\* up to the await of setCartToState()
LoadCart ==
  /\ site.comp = "header"
  /\ site.st.loads < MaxLoads
  /\ IF site.st.ref
     THEN SiteStep("header", site.st)
     ELSE SiteStep("header",
                   [ site.st EXCEPT !.ref = TRUE, !.isLoadingCart = TRUE,
                                    !.pending = @ + 1, !.loads = @ + 1 ])

\* setCartToState settles: the catch block reports a rejection, the
\* finally block releases the flag
CartLoadSettles(ok) ==
  /\ site.comp = "header"
  /\ site.st.pending > 0
  /\ SiteStep("header",
              [ site.st EXCEPT !.ref = FALSE, !.isLoadingCart = FALSE,
                               !.pending = @ - 1,
                               !.reports = IF ok THEN @ ELSE @ + 1 ])

-----------------------------------------------------------------------------
(* Search: the debounced submit *)

MaxKeywordLen == 3
MaxBursts == 2

\* encodeURIComponent on letters and spaces: a space becomes %20
EncodeURIComponent(k) == [i \in 1..Len(k) |-> IF k[i] = " " THEN "%20" ELSE k[i]]

\* keyword: the state of that name; timers: the timeouts of useDebounce
\* that are set and neither cleared nor fired, each with the keyword its
\* submitHandler closed over; bursts: the times a timeout was set while none
\* was pending; runs: the submitHandler runs; used: the keyword of the last
\* run; pushed, pushes: the last route pushed and their number; toasts: the
\* error toasts
SearchStart ==
  [ comp |-> "search",
    st |-> [ keyword |-> << >>, isSubmitting |-> FALSE, timers |-> << >>,
             bursts |-> 0, runs |-> 0, used |-> << >>, pushed |-> << >>,
             pushes |-> 0, toasts |-> 0 ] ]

\* handleKeywordChange
HandleKeywordChange(k) ==
  /\ site.comp = "search"
  /\ k # site.st.keyword
  /\ SiteStep("search", [site.st EXCEPT !.keyword = k])

\* submitHandler with the keyword k: isSubmitting is set and cleared within
\* the run; a blank keyword gets the error toast, any other is pushed
SubmitHandler(st, k) ==
  IF st.isSubmitting THEN st
  ELSE IF Trim(k) = << >>
  THEN [ st EXCEPT !.runs = @ + 1, !.used = k, !.toasts = @ + 1,
                   !.isSubmitting = FALSE ]
  ELSE [ st EXCEPT !.runs = @ + 1, !.used = k, !.pushes = @ + 1,
                   !.pushed = << "/?keyword=" >> \o EncodeURIComponent(Trim(k)),
                   !.isSubmitting = FALSE ]

\* a trigger that leaves the pending timeout in place
DebouncedSubmit_NoClear ==
  /\ site.comp = "search"
  /\ IF site.st.timers = << >> THEN site.st.bursts < MaxBursts
                               ELSE Len(site.st.timers) < 2
  /\ SiteStep("search",
              [ site.st EXCEPT !.timers = Append(@, site.st.keyword),
                               !.bursts = IF site.st.timers = << >>
                                          THEN @ + 1 ELSE @ ])

\* debouncedSubmit, called by the Enter key, the form's submit event or the
\* button: the pending timeout is cleared and a new one set
DebouncedSubmit ==
  /\ site.comp = "search"
  /\ site.st.timers # << >> \/ site.st.bursts < MaxBursts
  /\ SiteStep("search",
              [ site.st EXCEPT !.timers = << site.st.keyword >>,
                               !.bursts = IF site.st.timers = << >>
                                          THEN @ + 1 ELSE @ ])

\* 300 ms have passed since a timeout was set: it calls fn(...args)
DebounceFires ==
  /\ site.comp = "search"
  /\ site.st.timers # << >>
  /\ SiteStep("search",
              [ SubmitHandler(site.st, Head(site.st.timers))
                  EXCEPT !.timers = Tail(site.st.timers) ])

-----------------------------------------------------------------------------
(* CustomPagination *)

MaxTotalPages == 3
MaxParamLen == 2

\* the search parameters: has is whether they hold a page entry, page its
\* text
NoPage == [has |-> FALSE, page |-> << >>]
PageParams ==
  {NoPage} \cup
  { [has |-> TRUE, page |-> t] :
      t \in StringsUpTo({"-", "0", "1", "2", "3", "9", "x"}, MaxParamLen) }

\* getCurrentPage, with parseInt(pageParam, 10) on a sign, digits and
\* letters: the digits that follow the optional sign are read up to the
\* first other character, and none read is NaN
GetCurrentPage(sp, totalPages) ==
  LET t == sp.page
      neg == Len(t) > 0 /\ t[1] = "-"
      body == IF neg THEN Tail(t) ELSE t
      Dec(c) == c \in DigitChars
      D(c) == CHOOSE d \in 0..9 : ToString(d) = c
      n == IF \E k \in 1..Len(body) : ~Dec(body[k])
           THEN (CHOOSE k \in 1..Len(body) :
                   /\ ~Dec(body[k])
                   /\ \A j \in 1..(k - 1) : Dec(body[j])) - 1
           ELSE Len(body)
      Val[k \in 0..n] == IF k = 0 THEN 0 ELSE Val[k - 1] * 10 + D(body[k])
      isNaN == n = 0
      parsedPage == IF neg THEN 0 - Val[n] ELSE Val[n]
      cap == IF totalPages > 1 THEN totalPages ELSE 1
  IN  IF ~sp.has \/ t = << >> THEN 1
      ELSE IF isNaN \/ parsedPage < 1 THEN 1
      ELSE IF parsedPage < cap THEN parsedPage ELSE cap

\* searchParams, totalPages, isNavigating: as in the component; pushed: the
\* search parameters of the last router.push, while the route has not
\* changed; last: the last handlePageChange call, with the page asked for,
\* the current page and isNavigating as it found them, whether it pushed
\* and the search parameters of the route it pushed
PaginationStart ==
  { [ comp |-> "pagination",
      st |-> [ searchParams |-> sp, totalPages |-> n, isNavigating |-> FALSE,
               pushed |-> << >>, last |-> << >> ] ] :
      sp \in PageParams, n \in 0..MaxTotalPages }

\* a handlePageChange that does not look at isNavigating
HandlePageChange_NoPendingGuard(newPage) ==
  /\ site.comp = "pagination"
  /\ site.st.totalPages > 1
  /\ newPage \in 1..site.st.totalPages
  /\ LET st == site.st
         currentPage == GetCurrentPage(st.searchParams, st.totalPages)
         params == IF newPage = 1 THEN NoPage
                   ELSE [has |-> TRUE, page |-> << ToString(newPage) >>]
         call == [ newPage |-> newPage, currentPage |-> currentPage,
                   isNavigating |-> st.isNavigating ]
     IN  IF newPage = currentPage
         THEN SiteStep("pagination",
                [ st EXCEPT !.last = << call @@ [pushed |-> FALSE, route |-> << >>] >> ])
         ELSE SiteStep("pagination",
                [ st EXCEPT !.isNavigating = TRUE, !.pushed = << params >>,
                            !.last = << call @@ [pushed |-> TRUE,
                                                 route |-> << params >>] >> ])

\* handlePageChange(newPage), called by the pagination control, which is
\* rendered when totalPages > 1 and offers the pages 1..totalPages
HandlePageChange(newPage) ==
  /\ site.comp = "pagination"
  /\ site.st.totalPages > 1
  /\ newPage \in 1..site.st.totalPages
  /\ LET st == site.st
         currentPage == GetCurrentPage(st.searchParams, st.totalPages)
         params == IF newPage = 1 THEN NoPage
                   ELSE [has |-> TRUE, page |-> << ToString(newPage) >>]
         call == [ newPage |-> newPage, currentPage |-> currentPage,
                   isNavigating |-> st.isNavigating ]
     IN  IF st.isNavigating \/ newPage = currentPage
         THEN SiteStep("pagination",
                [ st EXCEPT !.last = << call @@ [pushed |-> FALSE, route |-> << >>] >> ])
         ELSE SiteStep("pagination",
                [ st EXCEPT !.isNavigating = TRUE, !.pushed = << params >>,
                            !.last = << call @@ [pushed |-> TRUE,
                                                 route |-> << params >>] >> ])

\* the search parameters change, by the pushed route or by any other
\* navigation: the effect on searchParams clears isNavigating
SearchParamsChange(sp) ==
  /\ site.comp = "pagination"
  /\ sp # site.st.searchParams
  /\ SiteStep("pagination",
              [ site.st EXCEPT !.searchParams = sp, !.isNavigating = FALSE,
                               !.pushed = << >> ])

-----------------------------------------------------------------------------
(* Filters: the price filter *)

MaxPriceLen == 2

\* min, max, isSubmitting: the states of those names; last: the
\* handlePriceFilter run made since min and max were last set, if any, with
\* min and max as it found them, the toasts it
\* showed and, when it pushed a route, the values it handed to
\* getPriceQueryParams for that route
FiltersStart ==
  [ comp |-> "filters",
    st |-> [ min |-> << >>, max |-> << >>, isSubmitting |-> FALSE,
             last |-> << >> ] ]

\* setMin and setMax, by the inputs and by the effect on searchParams, which
\* takes any text the URL holds
SetPrice(field, v) ==
  /\ site.comp = "filters"
  /\ field \in {"min", "max"}
  /\ v # site.st[field]
  /\ SiteStep("filters", [site.st EXCEPT ![field] = v, !.last = << >>])

\* validatePrices: the error it throws, or none.  Number(text) on signs,
\* digits, blanks and letters: blanks around the text are dropped, a blank
\* text is 0, an optional sign and digits are read as a decimal, anything
\* else is NaN
ValidatePrices(min, max) ==
  LET Num(t) ==
        LET tr == Trim(t)
            neg == Len(tr) > 0 /\ tr[1] = "-"
            body == IF neg THEN Tail(tr) ELSE tr
            nan == /\ tr # << >>
                   /\ \/ body = << >>
                      \/ \E k \in 1..Len(body) : body[k] \notin DigitChars
            D(c) == CHOOSE d \in 0..9 : ToString(d) = c
            Val[k \in 0..Len(body)] ==
              IF k = 0 THEN 0 ELSE Val[k - 1] * 10 + D(body[k])
        IN  [ nan |-> nan,
              n |-> IF nan THEN 0
                    ELSE IF neg THEN 0 - Val[Len(body)] ELSE Val[Len(body)] ]
      minNum == Num(min)
      maxNum == Num(max)
  IN  IF min = << >> /\ max = << >> THEN << "one of the two is required" >>
      ELSE IF min # << >> /\ max # << >>
      THEN IF minNum.nan \/ maxNum.nan THEN << "not a valid number" >>
           ELSE IF minNum.n > maxNum.n THEN << "min above max" >>
           ELSE << >>
      ELSE << >>

\* a handlePriceFilter that goes on when min is above max
HandlePriceFilter_OrderIgnored ==
  /\ site.comp = "filters"
  /\ LET st == site.st
         thrown == ValidatePrices(st.min, st.max)
         error == IF thrown = << "min above max" >> THEN << >> ELSE thrown
         run == [ min |-> st.min, max |-> st.max, toasts |-> error,
                  route |-> IF error = << >>
                            THEN << [min |-> st.min, max |-> st.max] >>
                            ELSE << >> ]
     IN  /\ st.last # << run >>
         /\ SiteStep("filters",
                     [ st EXCEPT !.isSubmitting = FALSE, !.last = << run >> ])

\* handlePriceFilter: no other task runs between its await and its end, and
\* no render in which isSubmitting is true makes a new handlePriceFilter,
\* so the handler always finds isSubmitting false
HandlePriceFilter ==
  /\ site.comp = "filters"
  /\ LET st == site.st
         error == ValidatePrices(st.min, st.max)
         run == [ min |-> st.min, max |-> st.max, toasts |-> error,
                  route |-> IF error = << >>
                            THEN << [min |-> st.min, max |-> st.max] >>
                            ELSE << >> ]
     IN  /\ st.last # << run >>
         /\ SiteStep("filters",
                     [ st EXCEPT !.isSubmitting = FALSE, !.last = << run >> ])

-----------------------------------------------------------------------------
(* The storefront components on their own *)

InitSite == AppStart /\ site \in {TelemetryStart, ProductStart, HeaderStart, SearchStart,
                           FiltersStart}
                          \cup PaginationStart

NextSite ==
  \/ \E u \in Users \cup {NullUser} : SetUser(u)
  \/ AddToCartHandler
  \/ HandleAddToCart
  \/ AddingTimerFires
  \/ CartRefreshed
  \/ LoadCart
  \/ \E ok \in BOOLEAN : CartLoadSettles(ok)
  \/ \E k \in StringsUpTo({"a", " "}, MaxKeywordLen) : HandleKeywordChange(k)
  \/ DebouncedSubmit
  \/ DebounceFires
  \/ \E n \in 1..MaxTotalPages : HandlePageChange(n)
  \/ \E sp \in PageParams : SearchParamsChange(sp)
  \/ \E field \in {"min", "max"},
        v \in StringsUpTo({"1", "5", "-", " ", "x"}, MaxPriceLen) :
       SetPrice(field, v)
  \/ HandlePriceFilter

SpecSite == InitSite /\ [][NextSite]_vars

-----------------------------------------------------------------------------
(* The claims on the storefront components *)

HexDigits == (48..57) \cup (97..102)

\* C22: the identity setUser forwards for a user holds only id, role and
\* an email made of a hexadecimal hash and "@anonymized.user" (not the raw
\* email, nor the name); a null user clears the identity; users with equal
\* emails get the same address.
C22_IdentityAnonymized ==
  site.comp = "telemetry" =>
    LET u == site.st.passed
        sent == site.st.identity
        n == Len(sent.email) - Len(AnonymizedSuffix)
    IN /\ u.null => sent = NoIdentity
       /\ ~u.null =>
            /\ DOMAIN sent = {"id", "email", "role"}
            /\ sent.id \in {u.id, u.mongoId}
            /\ sent.role \in {u.role, "user"}
            /\ u.email = << >> => sent.email = << >>
            /\ u.email # << >> =>
                 /\ sent.email # u.email
                 /\ n >= 1
                 /\ SubSeq(sent.email, n + 1, Len(sent.email)) = AnonymizedSuffix
                 /\ \A i \in 1..n : sent.email[i] \in HexDigits
            /\ \A v \in Users :
                 v.email = u.email => Identity(v).email = sent.email

\* setUser was given a user whose email is "ab@cd.dj": the address
\* forwarded is "f4c1c54@anonymized.user"
C22_Witness ==
  /\ site.comp = "telemetry"
  /\ ~site.st.passed.null
  /\ site.st.passed.email = << 97, 98, 64, 99, 100, 46, 100, 106 >>
  /\ site.st.passed.name = "Ann"
  /\ site.st.identity.email = << 102, 52, 99, 49, 99, 53, 52 >> \o AnonymizedSuffix

-----------------------------------------------------------------------------
(* The claims on the submit guard and on the two validations *)

\* no invocation of the mounted Payment is suspended
NoneInFlight(fl) == \A i \in 1..Len(fl) : ~fl[i].mounted

\* C23: once no handlePayment invocation of the page is in flight, the
\* submit-attempt counter is 0 and isSubmitting is false, whatever accepted
\* and rejected invocations came before, and an invocation made then is
\* processed, not rejected.
C23_GuardNeverLocks ==
  [][ /\ NoneInFlight(flights') => (submitAttempts' = 0 /\ ~pySubmitting')
      /\ (NoneInFlight(flights) /\ ev'.op = "handlePayment") =>
           ev'.result # "rejected" ]_vars

\* an invocation was rejected (its reset timer is still pending), the one
\* in flight has finished, and the guard is open
C23_Witness ==
  /\ page = "payment"
  /\ resetTimers > 0
  /\ flights = << >>
  /\ submitAttempts = 0
  /\ ~pySubmitting
  /\ ev.op = "handlePayment"
  /\ ev.result \in {"accepted", "invalid", "threw"}

\* C24: for a non-cash method and a number that is not of the local mobile
\* format, once live validation has marked both fields it has marked both
\* valid exactly when submit-time validation accepts the name and the
\* number; a field left empty, which live validation does not mark, is
\* refused at submit.
C24_LiveAgreesWithSubmit ==
  ( /\ selectedPayment # NoSelection
    /\ ~(selectedPayment.platform = "CASH" \/ selectedPayment.isCashPayment)
    /\ ~MobilePattern(accountNumber) ) =>
    LET accepted ==
          ValidatePaymentData(selectedPayment, accountName, accountNumber)
            = "valid"
    IN /\ (nameValid # "null" /\ numberValid # "null") =>
            ((nameValid = "true" /\ numberValid = "true") <=> accepted)
       /\ (accountName = << >> \/ accountNumber = << >>) => ~accepted

\* both fields are marked valid, the number is not a mobile one, and the
\* submit-time validation accepts
C24_Witness ==
  /\ selectedPayment.platform = "WAAFI"
  /\ nameValid = "true"
  /\ numberValid = "true"
  /\ ~MobilePattern(accountNumber)
  /\ ValidatePaymentData(selectedPayment, accountName, accountNumber) = "valid"
  /\ PayButtonEnabled

-----------------------------------------------------------------------------
(* The claim on the order sent *)

\* C25: whenever handleConfirmOrder dispatches addOrder, the draft it sends
\* agrees with the cart of that moment: its orderItems are the lines of the
\* cart and its totalAmount is cartTotal, to the cent.
C25_DraftMatchesCartAtDispatch ==
  [][ (ev'.op = "handleConfirmOrder" /\ ev'.sent) =>
        /\ orderInfo.orderItems = cart
        /\ RoundedToCents(orderInfo.totalAmount, cartTotal) ]_vars

-----------------------------------------------------------------------------
(* The claims on the catalogue views *)

\* C26: whatever the clicks on the add-to-cart buttons of a product, made
\* before or after the cart state has refreshed, addItemToCart is issued at
\* most once for it: every later click issues updateCart(INCREASE).
C26_OneAddPerProduct ==
  site.comp = "product" => site.st.adds <= 1

\* C27: at most one setCartToState call of loadCart is pending, the flag is
\* up exactly while one is, and it is down again once the call has settled,
\* resolved or rejected.
C27_OneCartLoad ==
  site.comp = "header" =>
    /\ site.st.pending <= 1
    /\ site.st.ref <=> (site.st.pending = 1)
    /\ site.st.isLoadingCart <=> (site.st.pending = 1)

\* a load was rejected and reported, and a later one is under way
C27_Witness ==
  /\ site.comp = "header"
  /\ site.st.reports >= 1
  /\ site.st.loads >= 2
  /\ site.st.pending = 1
  /\ site.st.ref

\* the query value a pushed route carries
QueryOf(url) ==
  [i \in 1..(Len(url) - 1) |-> IF url[i + 1] = "%20" THEN " " ELSE url[i + 1]]

\* C28: every burst of submit triggers gives one submitHandler run, after
\* its last trigger; a run pushes /?keyword=<trimmed keyword> once when the
\* keyword is not blank and shows the error toast without pushing when it
\* is; isSubmitting is false after every run.
C28_DebouncedSearch ==
  site.comp = "search" =>
    LET st == site.st IN
    /\ st.runs + (IF st.timers # << >> THEN 1 ELSE 0) = st.bursts
    /\ st.pushes + st.toasts = st.runs
    /\ ~st.isSubmitting
    /\ st.runs > 0 =>
         IF \A i \in 1..Len(st.used) : st.used[i] = " "
         THEN st.pushes = 0 \/ QueryOf(st.pushed) # st.used
         ELSE /\ st.pushes > 0
              /\ st.pushed[1] = "/?keyword="
              /\ QueryOf(st.pushed) = Trim(st.used)

\* two bursts have run: the first got the toast, the last pushed the
\* keyword "a a" with its space encoded
C28_Witness ==
  /\ site.comp = "search"
  /\ site.st.bursts = 2
  /\ site.st.runs = 2
  /\ site.st.timers = << >>
  /\ site.st.used = << "a", " ", "a" >>
  /\ site.st.pushed = << "/?keyword=", "a", "%20", "a" >>
  /\ site.st.toasts = 1

\* C29: the current page lies in 1..max(1, totalPages) whatever the page
\* parameter; handlePageChange pushes a route exactly when isNavigating is
\* false and the page asked for is not the current one; while a pushed
\* route is awaited isNavigating stays true, and it is cleared when the
\* search parameters change; the route pushed for page 1 has no page entry
\* and the one for another page has that page.
C29_PaginationGuarded ==
  site.comp = "pagination" =>
    LET st == site.st
        cap == IF st.totalPages > 1 THEN st.totalPages ELSE 1
    IN  /\ GetCurrentPage(st.searchParams, st.totalPages) \in 1..cap
        /\ st.isNavigating <=> st.pushed # << >>
        /\ st.last # << >> =>
             LET call == st.last[1] IN
             /\ call.pushed <=>
                  (~call.isNavigating /\ call.newPage # call.currentPage)
             /\ st.isNavigating => st.pushed = call.route \/ ~call.pushed
             /\ call.pushed =>
                  /\ call.route # << >>
                  /\ call.route[1].has <=> call.newPage # 1
                  /\ call.route[1].has =>
                       GetCurrentPage(call.route[1], st.totalPages)
                         = call.newPage

\* page 9x of 3 shows page 3, page 1 was asked for and pushed without a page
\* entry
C29_Witness ==
  /\ site.comp = "pagination"
  /\ site.st.totalPages = 3
  /\ site.st.searchParams = [has |-> TRUE, page |-> << "9", "x" >>]
  /\ site.st.last # << >>
  /\ site.st.last[1].currentPage = 3
  /\ site.st.last[1].newPage = 1
  /\ site.st.last[1].pushed
  /\ site.st.pushed = << NoPage >>
  /\ site.st.isNavigating

\* the numbers a price text stands for: blanks around it do not count, a
\* text of blanks stands for 0, and a text of digits d1..dk, with a minus
\* sign before them or not, for the sum of the di * 10^(k-i); no number for
\* any other text
PriceValues(t) ==
  LET tr == Trim(t)
      minus == tr # << >> /\ tr[1] = "-"
      ds == IF minus THEN SubSeq(tr, 2, Len(tr)) ELSE tr
      k == Len(ds)
      Pow10[e \in 0..k] == IF e = 0 THEN 1 ELSE 10 * Pow10[e - 1]
      Digit(c) == CHOOSE d \in 0..9 : ToString(d) = c
      Sum[i \in 0..k] ==
        IF i = 0 THEN 0 ELSE Sum[i - 1] + Digit(ds[i]) * Pow10[k - i]
  IN  IF tr = << >> THEN {0}
      ELSE IF k = 0 \/ \E i \in 1..k : ds[i] \notin DigitChars THEN {}
      ELSE {IF minus THEN 0 - Sum[k] ELSE Sum[k]}

\* C30: a handlePriceFilter run pushes a route with the min and max it found
\* only when one of them at least is not empty and, when neither is empty,
\* both are numbers and min is not above max; any other run shows an error
\* toast and pushes nothing; isSubmitting is false after every run.
C30_PriceFilterValidated ==
  site.comp = "filters" =>
    LET st == site.st IN
    /\ ~st.isSubmitting
    /\ st.last # << >> =>
         LET run == st.last[1]
             applicable ==
               /\ run.min # << >> \/ run.max # << >>
               /\ (run.min # << >> /\ run.max # << >>) =>
                    \E a \in PriceValues(run.min), b \in PriceValues(run.max) :
                      a <= b
         IN  /\ run.route # << >> => applicable
             /\ run.route # << >> =>
                  run.route = << [min |-> run.min, max |-> run.max] >>
             /\ run.route = << >> <=> run.toasts # << >>
             /\ ~applicable => run.route = << >>

\* min 15 above max 5 has been refused with a toast, which the comparison
\* of the two texts would have let pass
C30_Witness ==
  /\ site.comp = "filters"
  /\ site.st.last # << >>
  /\ site.st.last[1].min = << "1", "5" >>
  /\ site.st.last[1].max = << "5" >>
  /\ site.st.last[1].toasts # << >>
  /\ site.st.last[1].route = << >>
  /\ ~site.st.isSubmitting

====
